---- MODULE Spec2Model ----
(***************************************************************************)
(* Model of src/src/binning.py: RepresentativeSpectrumCreator              *)
(*   read_spectra_clustered_mgf  (the clustered-MGF parser and grouping)   *)
(*   combine_bin_mean            (binning, quorum filter, per-bin means)   *)
(*   write_spectrum              (the MGF serializer)                      *)
(*   main                        (read, combine every cluster, write)      *)
(*                                                                         *)
(* Numbers are exact rationals [num, den] (den > 0), NaN is [0, 0].        *)
(* Masses are counted in units of 0.01, so main's grid 100 / 2000 / 0.02   *)
(* is 10000 / 200000 / 2.  float32 rounding is not modelled.               *)
(* Text is a sequence of tokens: a word token carries its characters, a    *)
(* number token the number its digits denote (the decimal text of a float  *)
(* is taken to denote that float; "nan" and a leading "-" are kept apart). *)
(* An assert is taken to be executed (the interpreter runs without -O).    *)
(***************************************************************************)
EXTENDS Integers, Sequences, FiniteSets, TLC

VARIABLES
    \* ---- main() and read_spectra_clustered_mgf
    pc,           \* position of main: "read", "cluster", "done", "reread", "error"
    err,          \* the exception that ended the run ("" while none)
    heap,         \* the peaklist dicts created so far (a dict's identity is its index)
    peaklist,     \* the dict the name `peaklist` is bound to (0: unbound)
    all_spectra,  \* list of references into heap
    seen,         \* history: the cluster ids of the title lines read, in order
    wellformed,   \* history: the lines read so far follow the record grammar
    clusters,     \* ordered dict cluster_id -> list of peaklists
    rsc_spectra,  \* consensus spectra computed so far
    outfile,      \* the lines written to the output file
    reread,       \* result of parsing outfile again
    \* ---- direct calls of combine_bin_mean
    bpc,          \* "build", "returned", "raised"
    peaklists,    \* the argument of the call
    grid,         \* minimum, maximum, binsize, apply_peak_quorum of the call
    frame,        \* the locals of the call when it ended
    merged        \* the returned merged_spectrum (or the exception)

mainvars == <<pc, err, heap, peaklist, all_spectra, seen, wellformed, clusters,
              rsc_spectra, outfile, reread>>
binvars == <<bpc, peaklists, grid, frame, merged>>
vars == <<mainvars, binvars>>

----------------------------------------------------------------------------
\* Bounds of the model
MaxTitles == 2        \* title lines accepted from one input
MaxPeakLines == 1     \* peak lines accepted from one input
MaxEmitted == 2       \* END IONS lines accepted from one input
MaxMembers == 4       \* peaklists in a directly built cluster
MaxPeaks == 2         \* peaks in a directly built cluster, all members together

----------------------------------------------------------------------------
\* Rational numbers and NaN

RECURSIVE GCD(_, _)
GCD(a, b) == IF b = 0 THEN a ELSE GCD(b, a % b)

Abs(x) == IF x < 0 THEN -x ELSE x

NaN == [num |-> 0, den |-> 0]
IsNaN(x) == x.den = 0

Frac(n, d) ==
    IF d = 0 THEN NaN
    ELSE LET g == GCD(Abs(n), Abs(d))
             s == IF d < 0 THEN -1 ELSE 1
         IN  [num |-> (s * n) \div g, den |-> (s * d) \div g]

FInt(k) == [num |-> k, den |-> 1]

FAdd(a, b) ==
    IF IsNaN(a) \/ IsNaN(b) THEN NaN
    ELSE Frac(a.num * b.den + b.num * a.den, a.den * b.den)

\* np.divide(x, n) for an integer count n: x/0 is NaN for x = 0 or NaN
FDivInt(a, n) == IF IsNaN(a) \/ n = 0 THEN NaN ELSE Frac(a.num, a.den * n)

FGeqInt(a, k) == ~IsNaN(a) /\ a.num >= k * a.den
FLessInt(a, k) == ~IsNaN(a) /\ a.num < k * a.den
FIsZero(a) == ~IsNaN(a) /\ a.num = 0

RECURSIVE FSum(_)
FSum(s) == IF s = <<>> THEN FInt(0) ELSE FAdd(s[1], FSum(Tail(s)))

\* the elements of a finite set of integers in ascending order
RECURSIVE SortedSeq(_)
SortedSeq(S) ==
    IF S = {} THEN <<>>
    ELSE LET m == CHOOSE x \in S : \A y \in S : x <= y
         IN  <<m>> \o SortedSeq(S \ {m})

----------------------------------------------------------------------------
\* Text: tokens and lines

Word(s) == [t |-> "w", s |-> s]
Num(x) == [t |-> "n", n |-> x]

\* str.isdigit() of the first character of the text of a number
StartsWithDigit(tok) == tok.t = "n" /\ ~IsNaN(tok.n) /\ tok.n.num >= 0

RECURSIVE Split(_, _)
\* str.split(sep) on a sequence of word tokens
Split(s, sep) ==
    IF \A i \in 1..Len(s) : s[i] # sep THEN <<s>>
    ELSE LET k == CHOOSE i \in 1..Len(s) :
                      s[i] = sep /\ \A j \in 1..(i - 1) : s[j] # sep
         IN  <<SubSeq(s, 1, k - 1)>> \o Split(SubSeq(s, k + 1, Len(s)), sep)

RECURSIVE StripPlus(_)
\* str.strip("+"): drop the leading and the trailing "+" characters
StripPlus(s) ==
    IF s = <<>> THEN s
    ELSE IF s[Len(s)] = Word("+") THEN StripPlus(SubSeq(s, 1, Len(s) - 1))
    ELSE IF s[1] = Word("+") THEN StripPlus(Tail(s))
    ELSE s

----------------------------------------------------------------------------
\* read_spectra_clustered_mgf

\* the dict of lines 138-144, before its cluster_id and spectrum_usi are set
EmptyPeaklist ==
    [cluster_id |-> <<>>, spectrum_usi |-> <<>>, keys |-> {},
     precursor_mz |-> NaN, precursor_charge |-> 0,
     mz_array |-> <<>>, intensity_array |-> <<>>]

IsTitleLine(line) == line # <<>> /\ line[1] = Word("TITLE=")
IsPepmassLine(line) == line # <<>> /\ line[1] = Word("PEPMASS=")
IsChargeLine(line) == line # <<>> /\ line[1] = Word("CHARGE=")
IsPeakLine(line) == line # <<>> /\ StartsWithDigit(line[1])
IsEndLine(line) == line = <<Word("END IONS")>>

\* float(text) succeeds on the text of exactly one number
IsFloatText(toks) == Len(toks) = 1 /\ toks[1].t = "n"
\* int(text) succeeds on the text of exactly one integer
IsIntText(toks) == IsFloatText(toks) /\ toks[1].n.den = 1

Raise(st, e) == [st EXCEPT !.err = e]

\* one iteration of the loop over the lines of the file (lines 134-155);
\* st = [heap, peaklist, all_spectra, err]
ParseLine(st, line) ==
    IF st.err # "" THEN st
    ELSE IF IsTitleLine(line) THEN
        LET title == Tail(line)
            parts == Split(title, Word(";"))
        IN  IF Len(parts) < 2 THEN Raise(st, "IndexError")
            ELSE [st EXCEPT
                    !.heap = Append(st.heap,
                        [EmptyPeaklist EXCEPT !.cluster_id = parts[1],
                                              !.spectrum_usi = parts[2]]),
                    !.peaklist = Len(st.heap) + 1]
    ELSE IF IsPepmassLine(line) THEN
        IF ~IsFloatText(Tail(line)) THEN Raise(st, "ValueError")
        ELSE IF st.peaklist = 0 THEN Raise(st, "NameError")
        ELSE [st EXCEPT
                !.heap[st.peaklist].precursor_mz = line[2].n,
                !.heap[st.peaklist].keys = @ \cup {"precursor mz"}]
    ELSE IF IsChargeLine(line) THEN
        IF ~IsIntText(StripPlus(Tail(line))) THEN Raise(st, "ValueError")
        ELSE IF st.peaklist = 0 THEN Raise(st, "NameError")
        ELSE [st EXCEPT
                !.heap[st.peaklist].precursor_charge = StripPlus(Tail(line))[1].n.num,
                !.heap[st.peaklist].keys = @ \cup {"precursor charge"}]
    ELSE IF IsPeakLine(line) THEN
        IF st.peaklist = 0 THEN Raise(st, "NameError")
        ELSE IF Len(line) < 2 THEN Raise(st, "IndexError")
        ELSE IF line[2].t # "n" THEN Raise(st, "ValueError")
        ELSE [st EXCEPT
                !.heap[st.peaklist].mz_array = Append(@, line[1].n),
                !.heap[st.peaklist].intensity_array = Append(@, line[2].n)]
    ELSE IF IsEndLine(line) THEN
        IF st.peaklist = 0 THEN Raise(st, "NameError")
        ELSE [st EXCEPT !.all_spectra = Append(@, st.peaklist)]
    ELSE st

RECURSIVE ParseLines(_, _)
ParseLines(st, lines) ==
    IF lines = <<>> THEN st ELSE ParseLines(ParseLine(st, lines[1]), Tail(lines))

\* the index of cluster id `cid` in the ordered dict cs (0: not a key)
KeyIndex(cs, cid) ==
    IF \E i \in 1..Len(cs) : cs[i].id = cid
    THEN CHOOSE i \in 1..Len(cs) : cs[i].id = cid
    ELSE 0

RECURSIVE GroupPrepend(_, _)
\* the grouping with a new cluster put in front of the clusters found so far
GroupPrepend(spectra, cs) ==
    IF spectra = <<>> THEN cs
    ELSE LET p == spectra[1]
             k == KeyIndex(cs, p.cluster_id)
         IN  GroupPrepend(Tail(spectra),
                   IF k = 0
                   THEN <<[id |-> p.cluster_id, members |-> <<p>>]>> \o cs
                   ELSE [cs EXCEPT ![k].members = Append(@, p)])

RECURSIVE Group(_, _)
\* lines 159-167: group the spectra by cluster_id, in dict insertion order;
\* spectra is the list of dicts, cs the dict built so far
Group(spectra, cs) ==
    IF spectra = <<>> THEN cs
    ELSE LET p == spectra[1]
             k == KeyIndex(cs, p.cluster_id)
         IN  Group(Tail(spectra),
                   IF k = 0
                   THEN Append(cs, [id |-> p.cluster_id, members |-> <<p>>])
                   ELSE [cs EXCEPT ![k].members = Append(@, p)])

\* the dicts the list all_spectra refers to
Deref(st) == [i \in 1..Len(st.all_spectra) |-> st.heap[st.all_spectra[i]]]

ParserInit == [heap |-> <<>>, peaklist |-> 0, all_spectra |-> <<>>, err |-> ""]

\* the whole function on the lines of a file: [err, clusters]
read_spectra_clustered_mgf(lines) ==
    LET st == ParseLines(ParserInit, lines)
    IN  IF st.err # "" THEN [err |-> st.err, clusters |-> <<>>]
        ELSE [err |-> "", clusters |-> Group(Deref(st), <<>>)]

----------------------------------------------------------------------------
\* combine_bin_mean(peaklists, minimum, maximum, binsize, apply_peak_quorum)

\* line 172
array_size(minimum, maximum, binsize) == ((maximum - minimum) \div binsize) + 1

\* lines 181-183
peak_quorum(members, apply_peak_quorum) ==
    IF apply_peak_quorum THEN (Len(members) \div 4) + 1 ELSE 1

\* the boolean mask of lines 191-192
InRange(mz, minimum, maximum) == FGeqInt(mz, minimum) /\ FLessInt(mz, maximum)

\* line 195, for a mass the mask kept (so the quotient is not negative)
BinOf(mz, minimum, binsize) == (mz.num - minimum * mz.den) \div (binsize * mz.den)

\* the positions of a member's arrays that the mask keeps, in order
KeptIndex(p, minimum, maximum) ==
    SelectSeq([i \in 1..Len(p.mz_array) |-> i],
              LAMBDA i : InRange(p.mz_array[i], minimum, maximum))

\* bin_array of one member (line 195)
bin_array(p, minimum, maximum, binsize) ==
    LET k == KeptIndex(p, minimum, maximum)
    IN  [j \in 1..Len(k) |-> BinOf(p.mz_array[k[j]], minimum, binsize)]

SeqRange(s) == {s[i] : i \in 1..Len(s)}

\* the bins some peak of some member falls in: the accumulators are kept for
\* these only, every other entry of the arrays stays zero
Touched(members, minimum, maximum, binsize) ==
    UNION {SeqRange(bin_array(members[m], minimum, maximum, binsize)) :
               m \in 1..Len(members)}

\* a[idx] += v with an index array: every index named is updated once, and
\* where an index is repeated the value at its last position is the one added
IndexedAdd(a, idx, v) ==
    [b \in DOMAIN a |->
        IF b \in SeqRange(idx)
        THEN LET last == CHOOSE j \in 1..Len(idx) :
                             idx[j] = b /\ \A k \in (j + 1)..Len(idx) : idx[k] # b
             IN  FAdd(a[b], v[last])
        ELSE a[b]]

\* the increment done once for every position of the index array
IndexedIncrementEach(a, idx) ==
    [b \in DOMAIN a |-> a[b] + Cardinality({j \in 1..Len(idx) : idx[j] = b})]

\* n_peaks[bin_array] += 1 (line 197)
IndexedIncrement(a, idx) ==
    [b \in DOMAIN a |-> IF b \in SeqRange(idx) THEN a[b] + 1 ELSE a[b]]

\* lines 187-199 for one member; acc = [n_peaks, intensities, mzs]
AddMember(acc, p, minimum, maximum, binsize) ==
    LET k == KeptIndex(p, minimum, maximum)
        intensity_array == [j \in 1..Len(k) |-> p.intensity_array[k[j]]]
        mz_array == [j \in 1..Len(k) |-> p.mz_array[k[j]]]
        bins == [j \in 1..Len(k) |-> BinOf(mz_array[j], minimum, binsize)]
    IN  [n_peaks |-> IndexedIncrement(acc.n_peaks, bins),
         intensities |-> IndexedAdd(acc.intensities, bins, intensity_array),
         mzs |-> IndexedAdd(acc.mzs, bins, mz_array)]

RECURSIVE AddMembers(_, _, _, _, _)
\* the loop of lines 185-199
AddMembers(acc, members, minimum, maximum, binsize) ==
    IF members = <<>> THEN acc
    ELSE AddMembers(AddMember(acc, members[1], minimum, maximum, binsize),
                    Tail(members), minimum, maximum, binsize)

\* lines 174-176 and the loop: the three accumulators after the last member
Accumulated(members, minimum, maximum, binsize) ==
    LET D == Touched(members, minimum, maximum, binsize)
    IN  AddMembers([n_peaks |-> [b \in D |-> 0],
                    intensities |-> [b \in D |-> FInt(0)],
                    mzs |-> [b \in D |-> FInt(0)]],
                   members, minimum, maximum, binsize)

\* the check of line 206 written with any() in place of all()
ChargesAgreeAny(charges) ==
    charges = <<>> \/ \E i \in 1..Len(charges) : charges[i] = charges[1]

\* line 206: all(x == charges[0] for x in charges)
ChargesAgree(charges) == \A i \in 1..Len(charges) : charges[i] = charges[1]

\* the exception the call ends with, and the line that raises it ("" / 0: none)
CombineError(members) ==
    LET nokey == {m \in 1..Len(members) :
                     members[m].keys # {"precursor mz", "precursor charge"}}
        charges == [m \in 1..Len(members) |-> members[m].precursor_charge]
    IN  IF nokey # {} THEN
            LET m == CHOOSE x \in nokey : \A y \in nokey : x <= y
            IN  [err |-> "KeyError",
                 line |-> IF "precursor mz" \in members[m].keys THEN 202 ELSE 201]
        ELSE IF ~ChargesAgree(charges) THEN [err |-> "AssertionError", line |-> 206]
        ELSE IF members = <<>> THEN [err |-> "IndexError", line |-> 225]
        ELSE [err |-> "", line |-> 0]

\* lines 209-210: the intensity of bin b after the quorum filter and the division
MeanIntensity(acc, quorum, b) ==
    FDivInt(IF acc.n_peaks[b] < quorum THEN NaN ELSE acc.intensities[b],
            acc.n_peaks[b])

\* lines 220-221: the mass of bin b
MeanMz(acc, b) ==
    FDivInt(IF FIsZero(acc.mzs[b]) THEN NaN ELSE acc.mzs[b], acc.n_peaks[b])

\* line 213: the bins whose intensity is not NaN
NanMask(acc, quorum) == {b \in DOMAIN acc.n_peaks : ~IsNaN(MeanIntensity(acc, quorum, b))}

\* the locals of a call when it ends
CombineFrame(members, minimum, maximum, binsize, apply_peak_quorum) ==
    LET acc == Accumulated(members, minimum, maximum, binsize)
        q == peak_quorum(members, apply_peak_quorum)
        e == CombineError(members)
    IN  [array_size |-> array_size(minimum, maximum, binsize),
         peak_quorum |-> q,
         n_peaks |-> acc.n_peaks,
         intensities |-> acc.intensities,
         mzs |-> acc.mzs,
         nan_mask |-> IF e.err = "" THEN NanMask(acc, q) ELSE {},
         err |-> e.err,
         line |-> e.line]

NoSpectrum(e) ==
    [err |-> e.err, line |-> e.line, intensities |-> <<>>, mzs |-> <<>>,
     precursor_mz |-> NaN, precursor_charge |-> 0]

\* the returned dict (err = ""), or the exception
combine_bin_mean(members, minimum, maximum, binsize, apply_peak_quorum) ==
    LET e == CombineError(members)
    IN  IF e.err # "" THEN NoSpectrum(e)
        ELSE
        LET acc == Accumulated(members, minimum, maximum, binsize)
            q == peak_quorum(members, apply_peak_quorum)
            kept == SortedSeq(NanMask(acc, q))
        IN  [err |-> "", line |-> 0,
             intensities |-> [i \in 1..Len(kept) |-> MeanIntensity(acc, q, kept[i])],
             mzs |-> [i \in 1..Len(kept) |-> MeanMz(acc, kept[i])],
             precursor_mz |->
                 FDivInt(FSum([m \in 1..Len(members) |-> members[m].precursor_mz]),
                         Len(members)),
             precursor_charge |-> members[1].precursor_charge]

----------------------------------------------------------------------------
\* write_spectrum

\* the text of one spectrum (lines 236-244)
SpectrumText(spectrum) ==
    LET n == IF Len(spectrum.mzs) < Len(spectrum.intensities)
             THEN Len(spectrum.mzs) ELSE Len(spectrum.intensities)
        shown == SelectSeq([i \in 1..n |-> i],
                           LAMBDA i : ~IsNaN(spectrum.intensities[i]))
    IN  << <<Word("BEGIN IONS")>>,
           <<Word("TITLE=")>> \o spectrum.cluster_id,
           <<Word("PEPMASS="), Num(spectrum.precursor_mz)>>,
           <<Word("CHARGE="), Num(FInt(spectrum.precursor_charge)), Word("+")>> >>
        \o [j \in 1..Len(shown) |->
                <<Num(spectrum.mzs[shown[j]]), Num(spectrum.intensities[shown[j]])>>]
        \o << <<Word("END IONS")>>, <<>> >>

RECURSIVE write_spectrum(_)
\* lines 234-245: the lines written for the list spectra
write_spectrum(spectra) ==
    IF spectra = <<>> THEN <<>>
    ELSE SpectrumText(spectra[1]) \o write_spectrum(Tail(spectra))

----------------------------------------------------------------------------
\* main: read the clustered MGF, combine every cluster, write the result

\* the grid main passes at line 294 (100, 2000, 0.02), in units of 0.01
MainMinimum == 10000
MainMaximum == 200000
MainBinsize == 2

\* the lines an input file is made of
TitleTexts ==
    { <<Word("a"), Word(";"), Word("u")>>,
      <<Word("b"), Word(";"), Word("u")>>,
      <<Word("a")>> }
InputLines ==
    { <<Word("TITLE=")>> \o t : t \in TitleTexts }
    \cup { <<Word("PEPMASS="), Num(FInt(60000))>> }
    \cup { <<Word("CHARGE="), Num(FInt(2)), Word("+")>>,
           <<Word("CHARGE="), Num(FInt(3))>> }
    \cup { <<Num(FInt(50000)), Num(FInt(10))>> }
    \cup { <<Word("END IONS")>>, <<Word("BEGIN IONS")>> }

\* the number of (mass, intensity) pairs the dicts of a list hold
RECURSIVE TotalPeaks(_)
TotalPeaks(members) ==
    IF members = <<>> THEN 0
    ELSE Len(members[1].mz_array) + TotalPeaks(Tail(members))

ParserState ==
    [heap |-> heap, peaklist |-> peaklist, all_spectra |-> all_spectra, err |-> ""]

\* a record has been opened by a title line and not closed by END IONS
RecordOpen == peaklist # 0 /\ peaklist \notin SeqRange(all_spectra)

AllKeys == {"precursor mz", "precursor charge"}

\* the record grammar of the format: a title with a semicolon opens a record,
\* one precursor-mass line and one charge line, peak lines, END IONS closes it
FollowsGrammar(line) ==
    IF IsTitleLine(line) THEN ~RecordOpen /\ Len(Split(Tail(line), Word(";"))) >= 2
    ELSE IF IsPepmassLine(line)
         THEN RecordOpen /\ "precursor mz" \notin heap[peaklist].keys
    ELSE IF IsChargeLine(line)
         THEN RecordOpen /\ "precursor charge" \notin heap[peaklist].keys
    ELSE IF IsPeakLine(line) THEN RecordOpen
    ELSE IF IsEndLine(line) THEN RecordOpen /\ heap[peaklist].keys = AllKeys
    ELSE TRUE

\* an exception nothing catches ends the process: the parser's objects are
\* gone and the output file was never opened
Exit(e) ==
    /\ pc' = "error"
    /\ err' = e
    /\ heap' = <<>>
    /\ peaklist' = 0
    /\ all_spectra' = <<>>
    /\ UNCHANGED <<clusters, rsc_spectra, outfile, reread>>

\* the loop of line 134 takes the next line of the file
ReadLine(line) ==
    /\ pc = "read"
    /\ IsTitleLine(line) => Len(heap) < MaxTitles
    /\ IsPeakLine(line) => TotalPeaks(heap) < MaxPeakLines
    /\ IsEndLine(line) => Len(all_spectra) < MaxEmitted
    /\ LET st == ParseLine(ParserState, line)
       IN  IF st.err # ""
           THEN Exit(st.err)
           ELSE /\ heap' = st.heap
                /\ peaklist' = st.peaklist
                /\ all_spectra' = st.all_spectra
                /\ UNCHANGED <<pc, err, clusters, rsc_spectra, outfile, reread>>
    /\ seen' = IF IsTitleLine(line)
               THEN Append(seen, Split(Tail(line), Word(";"))[1])
               ELSE seen
    /\ wellformed' = (wellformed /\ FollowsGrammar(line))
    /\ UNCHANGED binvars

\* end of file: lines 159-167, and read_spectra_clustered_mgf returns
CloseInput ==
    /\ pc = "read"
    /\ clusters' = Group(Deref(ParserState), <<>>)
    /\ wellformed' = (wellformed /\ ~RecordOpen)
    /\ pc' = "cluster"
    /\ heap' = <<>>
    /\ peaklist' = 0
    /\ all_spectra' = <<>>
    /\ UNCHANGED <<err, seen, rsc_spectra, outfile, reread, binvars>>

\* one iteration of the loop of lines 291-297
CombineNext ==
    /\ pc = "cluster"
    /\ Len(rsc_spectra) < Len(clusters)
    /\ LET c == clusters[Len(rsc_spectra) + 1]
           r == combine_bin_mean(c.members, MainMinimum, MainMaximum, MainBinsize, TRUE)
       IN  IF r.err # ""
           THEN Exit(r.err)
           ELSE /\ rsc_spectra' = Append(rsc_spectra, [cluster_id |-> c.id] @@ r)
                /\ UNCHANGED <<pc, err, heap, peaklist, all_spectra, clusters,
                               outfile, reread>>
    /\ UNCHANGED <<seen, wellformed, binvars>>

\* lines 301-302
WriteOut ==
    /\ pc = "cluster"
    /\ Len(rsc_spectra) = Len(clusters)
    /\ outfile' = write_spectrum(rsc_spectra)
    /\ pc' = "done"
    /\ UNCHANGED <<err, heap, peaklist, all_spectra, seen, wellformed, clusters,
                   rsc_spectra, reread, binvars>>

\* the written file is given to read_spectra_clustered_mgf again
Reread ==
    /\ pc = "done"
    /\ reread' = read_spectra_clustered_mgf(outfile)
    /\ pc' = "reread"
    /\ UNCHANGED <<err, heap, peaklist, all_spectra, seen, wellformed, clusters,
                   rsc_spectra, outfile, binvars>>

----------------------------------------------------------------------------
\* direct calls of combine_bin_mean on clusters built by the caller

\* the precursors, the (mass, intensity) pairs and the keyword arguments the
\* caller chooses from
Precursors == { [mz |-> 600, charge |-> 2], [mz |-> 602, charge |-> 3] }
Peaks == { <<0, 10>>, <<1, 30>>, <<4, 0>> }
Grids ==
    { [minimum |-> 0, maximum |-> 4, binsize |-> 2, apply_peak_quorum |-> TRUE],
      [minimum |-> 1, maximum |-> 5, binsize |-> 2, apply_peak_quorum |-> TRUE],
      [minimum |-> 1, maximum |-> 5, binsize |-> 2, apply_peak_quorum |-> FALSE] }

NoFrame ==
    [array_size |-> 0, peak_quorum |-> 0, n_peaks |-> <<>>, intensities |-> <<>>,
     mzs |-> <<>>, nan_mask |-> {}, err |-> "", line |-> 0]

\* the caller adds a peaklist dict to the cluster
AddPeaklist(pre) ==
    /\ bpc = "build"
    /\ Len(peaklists) < MaxMembers
    /\ peaklists' = Append(peaklists,
           [EmptyPeaklist EXCEPT !.cluster_id = <<Word("a")>>,
                                 !.spectrum_usi = <<Word("u")>>,
                                 !.keys = AllKeys,
                                 !.precursor_mz = FInt(pre.mz),
                                 !.precursor_charge = pre.charge])
    /\ UNCHANGED <<bpc, grid, frame, merged, mainvars>>

\* the caller adds a (mass, intensity) pair to the last peaklist
AddPeak(peak) ==
    /\ bpc = "build"
    /\ peaklists # <<>>
    /\ TotalPeaks(peaklists) < MaxPeaks
    /\ peaklists' = [peaklists EXCEPT
           ![Len(peaklists)].mz_array = Append(@, FInt(peak[1])),
           ![Len(peaklists)].intensity_array = Append(@, FInt(peak[2]))]
    /\ UNCHANGED <<bpc, grid, frame, merged, mainvars>>

\* what a call of combine_bin_mean(members, **g) leaves
CallResult(members, g) ==
    LET f == CombineFrame(members, g.minimum, g.maximum, g.binsize, g.apply_peak_quorum)
        r == combine_bin_mean(members, g.minimum, g.maximum, g.binsize,
                              g.apply_peak_quorum)
    IN  /\ frame' = f
        /\ merged' = r
        /\ bpc' = IF r.err = "" THEN "returned" ELSE "raised"

Call(g) ==
    /\ bpc = "build"
    /\ grid' = g
    /\ CallResult(peaklists, g)
    /\ UNCHANGED <<peaklists, mainvars>>

SwapAt(s, i) == [s EXCEPT ![i] = s[i + 1], ![i + 1] = s[i]]

\* the caller exchanges two neighbouring members and calls again
PermuteMembers(i) ==
    /\ bpc \in {"returned", "raised"}
    /\ i \in 1..(Len(peaklists) - 1)
    /\ peaklists' = SwapAt(peaklists, i)
    /\ CallResult(peaklists', grid)
    /\ UNCHANGED <<grid, mainvars>>

\* the caller exchanges two neighbouring (mass, intensity) pairs of one member
\* and calls again
PermutePeaks(m, i) ==
    /\ bpc \in {"returned", "raised"}
    /\ m \in 1..Len(peaklists)
    /\ i \in 1..(Len(peaklists[m].mz_array) - 1)
    /\ peaklists' = [peaklists EXCEPT
           ![m].mz_array = SwapAt(@, i),
           ![m].intensity_array = SwapAt(@, i)]
    /\ CallResult(peaklists', grid)
    /\ UNCHANGED <<grid, mainvars>>

----------------------------------------------------------------------------
\* Specifications

MainInit ==
    /\ pc = "read"
    /\ err = ""
    /\ heap = <<>>
    /\ peaklist = 0
    /\ all_spectra = <<>>
    /\ seen = <<>>
    /\ wellformed = TRUE
    /\ clusters = <<>>
    /\ rsc_spectra = <<>>
    /\ outfile = <<>>
    /\ reread = [err |-> "", clusters |-> <<>>]

BinInit ==
    /\ bpc = "build"
    /\ peaklists = <<>>
    /\ grid = CHOOSE g \in Grids : g.minimum = 0
    /\ frame = NoFrame
    /\ merged = NoSpectrum([err |-> "", line |-> 0])

Init == MainInit /\ BinInit

\* a run of main on one input file
Next ==
    \/ \E line \in InputLines : ReadLine(line)
    \/ CloseInput
    \/ CombineNext
    \/ WriteOut
    \/ Reread

Spec == Init /\ [][Next]_vars

\* calls of combine_bin_mean on one cluster
NextBin ==
    \/ \E pre \in Precursors : AddPeaklist(pre)
    \/ \E peak \in Peaks : AddPeak(peak)
    \/ \E g \in Grids : Call(g)
    \/ \E i \in 1..MaxMembers : PermuteMembers(i)
    \/ \E m \in 1..MaxMembers, i \in 1..MaxPeaks : PermutePeaks(m, i)

SpecBin == Init /\ [][NextBin]_vars

----------------------------------------------------------------------------
\* Properties of a run of main (checked under Spec)

\* two records of the cluster carry different precursor charges
MixedCharges(members) ==
    \E i, j \in 1..Len(members) :
        /\ "precursor charge" \in members[i].keys
        /\ "precursor charge" \in members[j].keys
        /\ members[i].precursor_charge # members[j].precursor_charge

\* the cluster ids on the title lines of a text, in order
RECURSIVE TitlesOf(_)
TitlesOf(lines) ==
    IF lines = <<>> THEN <<>>
    ELSE (IF IsTitleLine(lines[1]) THEN <<Tail(lines[1])>> ELSE <<>>)
         \o TitlesOf(Tail(lines))

\* a sequence without the later repetitions of its elements
RECURSIVE FirstAppearances(_)
FirstAppearances(ids) ==
    IF ids = <<>> THEN <<>>
    ELSE LET front == FirstAppearances(SubSeq(ids, 1, Len(ids) - 1))
             last == ids[Len(ids)]
         IN  IF last \in SeqRange(front) THEN front ELSE Append(front, last)

\* C2: round trip. Every consensus spectrum that write_spectrum wrote is parsed
\* back by read_spectra_clustered_mgf without an error, as one record with the
\* same cluster id, the same (mass, intensity) pairs and the same precursor
\* mass and charge.
C2_RoundTripClaim ==
    pc = "reread" =>
        /\ reread.err = ""
        /\ Len(reread.clusters) = Len(rsc_spectra)
        /\ \A k \in 1..Len(rsc_spectra) :
              /\ reread.clusters[k].id = rsc_spectra[k].cluster_id
              /\ Len(reread.clusters[k].members) = 1
              /\ reread.clusters[k].members[1].mz_array = rsc_spectra[k].mzs
              /\ reread.clusters[k].members[1].intensity_array
                     = rsc_spectra[k].intensities
              /\ reread.clusters[k].members[1].precursor_mz
                     = rsc_spectra[k].precursor_mz
              /\ reread.clusters[k].members[1].precursor_charge
                     = rsc_spectra[k].precursor_charge

\* C3: charge mismatch. A cluster holding two records with different precursor
\* charges makes combine_bin_mean raise instead of returning a spectrum, main
\* never gets past that cluster, and no record of it is ever written.
C3_ChargeMismatch ==
    \A i \in 1..Len(clusters) :
        MixedCharges(clusters[i].members) =>
            /\ combine_bin_mean(clusters[i].members, MainMinimum, MainMaximum,
                                MainBinsize, TRUE).err # ""
            /\ Len(rsc_spectra) < i
            /\ pc \notin {"done", "reread"}
            /\ clusters[i].id \notin SeqRange(TitlesOf(outfile))

\* the run ended on the assertion of line 206, with a mixed cluster in hand
C3_Witness ==
    /\ pc = "error"
    /\ err = "AssertionError"
    /\ \E i \in 1..Len(clusters) : MixedCharges(clusters[i].members)
    /\ outfile = <<>>

\* C4: for a well-formed input whose clusters each have one charge, main ends
\* without an error and writes exactly one record per distinct cluster id, in
\* the order in which the cluster ids first appear in the input.
C4_OneRecordPerCluster ==
    ( /\ pc \in {"cluster", "done", "reread", "error"}
      /\ wellformed
      /\ \A i \in 1..Len(clusters) : ~MixedCharges(clusters[i].members) )
    => /\ pc # "error"
       /\ pc \in {"done", "reread"} =>
             /\ TitlesOf(outfile) = FirstAppearances(seen)
             /\ Len(SelectSeq(outfile, IsEndLine)) = Len(FirstAppearances(seen))

\* a finished run on a well-formed input with cluster b before cluster a
C4_Witness ==
    /\ pc = "done"
    /\ wellformed
    /\ seen = << <<Word("b")>>, <<Word("a")>> >>
    /\ TitlesOf(outfile) = seen

\* C5: incomplete record. No record whose precursor-mass line or charge line is
\* missing is ever emitted: not into all_spectra, not into a cluster.
C5_IncompleteRecordClaim ==
    /\ \A i \in 1..Len(all_spectra) : heap[all_spectra[i]].keys = AllKeys
    /\ \A c \in 1..Len(clusters) :
          \A m \in 1..Len(clusters[c].members) :
              clusters[c].members[m].keys = AllKeys

\* C10: record isolation. Every END IONS emits a record of its own, opened by
\* its own title line: no record is emitted twice, and there are never more
\* emitted records than title lines.
C10_RecordIsolationClaim ==
    /\ \A i, j \in 1..Len(all_spectra) : i # j => all_spectra[i] # all_spectra[j]
    /\ Len(all_spectra) <= Len(seen)

----------------------------------------------------------------------------
\* Properties of a call of combine_bin_mean (checked under SpecBin)

\* the bin a mass belongs to, by the definition of the grid
GridBin(mz, g) == BinOf(mz, g.minimum, g.binsize)

\* the (mass, intensity) pairs of member p that lie in the range of g and in bin b
RECURSIVE PeaksIn(_, _, _, _)
PeaksIn(p, g, b, i) ==
    IF i > Len(p.mz_array) THEN <<>>
    ELSE (IF /\ InRange(p.mz_array[i], g.minimum, g.maximum)
             /\ GridBin(p.mz_array[i], g) = b
          THEN << <<p.mz_array[i], p.intensity_array[i]>> >>
          ELSE <<>>)
         \o PeaksIn(p, g, b, i + 1)

\* the same over all members of a cluster
RECURSIVE ClusterPeaksIn(_, _, _)
ClusterPeaksIn(members, g, b) ==
    IF members = <<>> THEN <<>>
    ELSE PeaksIn(members[1], g, b, 1) \o ClusterPeaksIn(Tail(members), g, b)

\* the members that contributed at least one in-range peak to bin b
Contributors(members, g, b) ==
    {m \in 1..Len(members) : PeaksIn(members[m], g, b, 1) # <<>>}

AllBins == 0..(frame.array_size - 1)

\* an accumulator of the ended call at bin b (an untouched entry is zero)
HitCount(b) == IF b \in DOMAIN frame.n_peaks THEN frame.n_peaks[b] ELSE 0
IntensitySum(b) == IF b \in DOMAIN frame.intensities THEN frame.intensities[b] ELSE FInt(0)
MassSum(b) == IF b \in DOMAIN frame.mzs THEN frame.mzs[b] ELSE FInt(0)

\* C1: with the quorum enabled, a call on N >= 1 members that returns uses
\* q = floor(N/4) + 1, and a bin is in the consensus output if and only if at
\* least q distinct members have an in-range peak in it (a bin with exactly q
\* included); the output has one entry per such bin.
C1_QuorumPresence ==
    (bpc = "returned" /\ grid.apply_peak_quorum /\ Len(peaklists) >= 1) =>
        LET q == (Len(peaklists) \div 4) + 1
        IN  /\ frame.peak_quorum = q
            /\ \A b \in AllBins :
                  b \in frame.nan_mask
                      <=> Cardinality(Contributors(peaklists, grid, b)) >= q
            /\ frame.nan_mask \subseteq AllBins
            /\ Len(merged.intensities) = Cardinality(frame.nan_mask)
            /\ Len(merged.mzs) = Cardinality(frame.nan_mask)

\* four members, quorum 2: a bin two of them hit is present, and a member's two
\* peaks in one bin count once
C1_Witness ==
    /\ bpc = "returned"
    /\ grid.apply_peak_quorum
    /\ Len(peaklists) = 4
    /\ frame.peak_quorum = 2
    /\ \E b \in frame.nan_mask : Cardinality(Contributors(peaklists, grid, b)) = 2
    /\ Len(merged.intensities) = 1

\* C6: empty cluster. A call with no peaklists raises an empty-cluster error
\* before the quorum is computed (line 181), and returns nothing.
C6_EmptyClusterClaim ==
    (bpc \in {"returned", "raised"} /\ peaklists = <<>>) =>
        /\ bpc = "raised"
        /\ merged.err = "EmptyClusterError"
        /\ merged.line < 181

\* C7: accumulation. Every in-range pair of every member adds 1 to the hit
\* count, its intensity to the intensity sum and its mass to the mass sum of
\* its bin, also when a member has several peaks in one bin; pairs out of
\* range change nothing; so a present bin's intensity is the mean of all
\* in-range peaks in it.
C7_AccumulationClaim ==
    bpc = "returned" =>
        /\ \A b \in AllBins :
              LET ps == ClusterPeaksIn(peaklists, grid, b)
              IN  /\ HitCount(b) = Len(ps)
                  /\ IntensitySum(b) = FSum([k \in 1..Len(ps) |-> ps[k][2]])
                  /\ MassSum(b) = FSum([k \in 1..Len(ps) |-> ps[k][1]])
        /\ LET kept == SortedSeq(frame.nan_mask)
           IN  \A i \in 1..Len(kept) :
                   LET ps == ClusterPeaksIn(peaklists, grid, kept[i])
                   IN  merged.intensities[i]
                           = FDivInt(FSum([k \in 1..Len(ps) |-> ps[k][2]]), Len(ps))

\* C8: order independence. Calling again on the same cluster with two members
\* exchanged, or with two pairs of one member exchanged, returns the same
\* masses, intensities, precursor mass and precursor charge.
C8_OrderIndependenceClaim ==
    [][(bpc = "returned" /\ bpc' = "returned" /\ grid' = grid) => merged' = merged]_vars

\* C9: output well-formedness. The two returned arrays have the same length, at
\* most the bin count, and neither holds a NaN.
C9_WellFormedClaim ==
    bpc = "returned" =>
        /\ Len(merged.mzs) = Len(merged.intensities)
        /\ Len(merged.mzs) <= frame.array_size
        /\ \A i \in 1..Len(merged.intensities) : ~IsNaN(merged.intensities[i])
        /\ \A i \in 1..Len(merged.mzs) : ~IsNaN(merged.mzs[i])

====
